---- MODULE Spec2Model ----
(***************************************************************************)
(* Model of revlibs.connections.connectors: BaseConnector (one cached      *)
(* connection slot, get_connection / close), ExasolConnector and           *)
(* PostgresConnector (_connect, _parse_dsn, is_connection_closed).         *)
(*                                                                         *)
(* Strings that the code parses or formats (the dsn) are sequences of      *)
(* one-character strings; other strings are opaque.  A connection handle   *)
(* is a positive integer (object identity); 0 is Python's None in the      *)
(* connector's slot.  The drivers (pyexasol, psycopg2) are the             *)
(* environment: every result of a driver call is chosen by \E.             *)
(***************************************************************************)
EXTENDS Integers, Sequences, FiniteSets, TLC

VARIABLES kind, config, connection, handles, released, last, prev, threads

vars == <<kind, config, connection, handles, released, last, prev, threads>>

\* Bound: how many handles the drivers may create in one behaviour.
MaxHandles == 3

\* Bound: the longest dsn string of the parsing specification.
MaxDsnLen == 5

\* Bound: how many handles the drivers may create in one behaviour of the
\* concurrent specification.
MaxRaceHandles == 2

\* ---------------------------------------------------------------- values

\* Python's None, where a string is expected (dbname=None).
None == "<None>"

\* An empty dict / empty **kwargs.
EmptyDict == [k \in {} |-> TRUE]

NoError == [type |-> "none"]

Handles == 1..MaxHandles

\* ------------------------------------------------------- str primitives

Whitespace == {" "}

\* s[i..], the rest of a string from index i.
Tail_from(s, i) == SubSeq(s, i, Len(s))

\* str.split(sep) for a one-character separator: always at least one piece.
RECURSIVE str_split(_, _)
str_split(s, sep) ==
    IF \A i \in 1..Len(s) : s[i] # sep
    THEN <<s>>
    ELSE LET i == CHOOSE j \in 1..Len(s) :
                      s[j] = sep /\ \A k \in 1..(j - 1) : s[k] # sep
         IN  <<SubSeq(s, 1, i - 1)>> \o str_split(Tail_from(s, i + 1), sep)

\* str.strip(): leading and trailing whitespace removed.
RECURSIVE str_lstrip(_)
str_lstrip(s) ==
    IF Len(s) > 0 /\ s[1] \in Whitespace THEN str_lstrip(Tail(s)) ELSE s

RECURSIVE str_rstrip(_)
str_rstrip(s) ==
    IF Len(s) > 0 /\ s[Len(s)] \in Whitespace
    THEN str_rstrip(SubSeq(s, 1, Len(s) - 1))
    ELSE s

str_strip(s) == str_rstrip(str_lstrip(s))

\* The characters a bounded dsn is made of: a host or port character, the
\* two separators and whitespace.
DsnAlphabet == {"a", ":", ",", " "}

\* Every dsn string of at most MaxDsnLen characters.
DsnStrings == UNION {[1..n -> DsnAlphabet] : n \in 0..MaxDsnLen}

\* dict.update(other): keys of other win.
dict_update(d, other) ==
    [k \in (DOMAIN d) \cup (DOMAIN other) |->
        IF k \in DOMAIN other THEN other[k] ELSE d[k]]

\* ------------------------------------------------------- configurations

Dsn_single == <<"a", ":", "1">>
Dsn_pair == <<"a", ":", "1", ",", " ", "b", ":", "2">>
Dsn_bad_second == <<"a", ":", "1", ",", "b">>

ExasolParamsChoices ==
    { EmptyDict,
      [compression |-> FALSE],
      [compression |-> TRUE, autocommit |-> TRUE],
      [schema |-> "T", autocommit |-> FALSE] }

PostgresParamsChoices ==
    { EmptyDict, [sslmode |-> "require"] }

BaseConfig(dsn, params) ==
    [name |-> "db", dsn |-> dsn, user |-> "u", password |-> "pw",
     params |-> params]

\* The configurations a connector is built from.  "schema" and "dbname" are
\* optional keys: presence is DOMAIN membership ("schema" in self.config).
ExasolConfigs ==
    { BaseConfig(Dsn_single, p) : p \in ExasolParamsChoices }
    \cup { dict_update(BaseConfig(Dsn_single, p), [schema |-> "S"]) :
             p \in ExasolParamsChoices }

PostgresConfigs ==
    { BaseConfig(d, p) :
        d \in {Dsn_single, Dsn_pair, Dsn_bad_second},
        p \in PostgresParamsChoices }
    \cup { dict_update(BaseConfig(d, EmptyDict), [dbname |-> "prod"]) :
             d \in {Dsn_single, Dsn_pair, Dsn_bad_second} }

\* ------------------------------------------------------------ the drivers

\* pyexasol's exception classes the connect call may raise, each with its
\* ancestors below ExaError (itself included): what `except C` matches.
ExaAncestors(cls) ==
    CASE cls = "ExaConnectionDsnError" ->
            {"ExaConnectionDsnError", "ExaConnectionError", "ExaError"}
      [] cls = "ExaConnectionFailedError" ->
            {"ExaConnectionFailedError", "ExaConnectionError", "ExaError"}
      [] cls = "ExaAuthError" ->
            {"ExaAuthError", "ExaRequestError", "ExaCommunicationError",
             "ExaError"}
      [] cls = "ExaRequestError" ->
            {"ExaRequestError", "ExaCommunicationError", "ExaError"}
      [] cls = "ExaRuntimeError" -> {"ExaRuntimeError", "ExaError"}
      [] OTHER -> {cls}

ExaFailures ==
    {"ExaConnectionDsnError", "ExaConnectionFailedError", "ExaAuthError",
     "ExaRequestError", "ExaRuntimeError"}

\* The failure the driver raised on attempt number `attempt` of one
\* establishment call (its identity: class and attempt).
DriverError(cls, attempt) == [type |-> cls, attempt |-> attempt]

\* ConnectionEstablishError(name, **kwargs) raised `from cause`.
ConnectionEstablishError(name, kwargs, cause) ==
    [type |-> "ConnectionEstablishError", name |-> name, kwargs |-> kwargs,
     cause |-> cause]

\* One call of a driver's connect primitive, as the driver saw it.
ConnectCall(args, outcome, handle) ==
    [op |-> "connect", args |-> args, outcome |-> outcome, handle |-> handle]

\* What an establishment routine hands back: the handle it returns (0 when
\* it raises), the error it raises, the driver calls it made, the handles
\* the driver opened meanwhile.
Established(ret, raised, calls, created) ==
    [ret |-> ret, raised |-> raised, calls |-> calls, created |-> created]

\* ------------------------------------------------------ ExasolConnector

\* Mutant: the defaults are applied last and win over the configuration.
ExasolConnector_params_defaults_win(cfg) ==
    LET withSchema == IF "schema" \in DOMAIN cfg
                      THEN dict_update(cfg.params, [schema |-> cfg.schema])
                      ELSE cfg.params
    IN  dict_update(withSchema, [compression |-> TRUE])

\* The merged **params of ExasolConnector._connect.
ExasolConnector_params(cfg) ==
    LET defaults == [compression |-> TRUE]
        withSchema == IF "schema" \in DOMAIN cfg
                      THEN dict_update(defaults, [schema |-> cfg.schema])
                      ELSE defaults
    IN  dict_update(withSchema, cfg.params)

\* Mutant: the generic clause comes first and shadows the specific ones.
ExasolConnector_handlers_generic_first(cfg) ==
    << [catch |-> "ExaError",
        kwargs |-> [dsn |-> cfg.dsn]],
       [catch |-> "ExaConnectionDsnError",
        kwargs |-> [reason |-> "Bad dsn", dsn |-> cfg.dsn]],
       [catch |-> "ExaAuthError",
        kwargs |-> [reason |-> "Authentication failed", dsn |-> cfg.dsn,
                    user |-> cfg.user]],
       [catch |-> "ExaConnectionFailedError",
        kwargs |-> [reason |-> "Connection refused", dsn |-> cfg.dsn]] >>

\* The except clauses of ExasolConnector._connect, in source order: the
\* class each catches and the keyword arguments of the error it raises.
ExasolConnector_handlers(cfg) ==
    << [catch |-> "ExaConnectionDsnError",
        kwargs |-> [reason |-> "Bad dsn", dsn |-> cfg.dsn]],
       [catch |-> "ExaAuthError",
        kwargs |-> [reason |-> "Authentication failed", dsn |-> cfg.dsn,
                    user |-> cfg.user]],
       [catch |-> "ExaConnectionFailedError",
        kwargs |-> [reason |-> "Connection refused", dsn |-> cfg.dsn]],
       [catch |-> "ExaError",
        kwargs |-> [dsn |-> cfg.dsn]] >>

\* try/except: the first clause whose class the raised exception is an
\* instance of handles it; 0 when none does.
FirstMatch(cls, handlers) ==
    LET hits == {i \in 1..Len(handlers) :
                    handlers[i].catch \in ExaAncestors(cls)}
    IN  IF hits = {} THEN 0
        ELSE CHOOSE i \in hits : \A j \in hits : i <= j

\* ExasolConnector._connect; outcome: "ok" or the class the driver raises,
\* fresh: the handle the driver returns on success.
ExasolConnector_connect(cfg, outcome, fresh) ==
    LET args == [dsn |-> cfg.dsn, user |-> cfg.user,
                 password |-> cfg.password, fetch_dict |-> TRUE,
                 fetch_mapper |-> "exasol_mapper",
                 params |-> ExasolConnector_params(cfg)]
        handlers == ExasolConnector_handlers(cfg)
        m == FirstMatch(outcome, handlers)
        exc == DriverError(outcome, 1)
    IN  IF outcome = "ok"
        THEN Established(fresh, NoError,
                         <<ConnectCall(args, "ok", fresh)>>, {fresh})
        ELSE Established(0,
                 IF m = 0 THEN exc
                 ELSE ConnectionEstablishError(cfg.name, handlers[m].kwargs,
                                               exc),
                 <<ConnectCall(args, outcome, 0)>>, {})

\* ---------------------------------------------------- PostgresConnector

\* Mutant: empty pieces of the dsn are dropped.
PostgresConnector_segments_skip_empty(data_source_name) ==
    SelectSeq(str_split(data_source_name, ","), LAMBDA seg : seg # <<>>)

\* The comma-separated pieces of the dsn, before any of them is parsed.
PostgresConnector_segments(data_source_name) ==
    str_split(data_source_name, ",")

\* host, port = dsn.strip().split(":") unpacks exactly two pieces.
Unpacks(segment) == Len(str_split(str_strip(segment), ":")) = 2

\* Mutant: the segment is split without being stripped first.
PostgresConnector_format_unstripped(segment) ==
    LET parts == str_split(segment, ":")
    IN  <<"h", "o", "s", "t", "=">> \o parts[1]
        \o <<" ", "p", "o", "r", "t", "=">> \o parts[2]

\* f"host={host} port={port}" for one segment that unpacks.
PostgresConnector_format(segment) ==
    LET parts == str_split(str_strip(segment), ":")
    IN  <<"h", "o", "s", "t", "=">> \o parts[1]
        \o <<" ", "p", "o", "r", "t", "=">> \o parts[2]

\* The generator _parse_dsn run to its end or to its first failure: the
\* strings it yields, and whether it then raises ValueError.
RECURSIVE PostgresConnector_parse_dsn_from(_, _)
PostgresConnector_parse_dsn_from(segments, i) ==
    IF i > Len(segments)
    THEN [yielded |-> <<>>, raises |-> FALSE]
    ELSE IF ~Unpacks(segments[i])
    THEN [yielded |-> <<>>, raises |-> TRUE]
    ELSE LET rest == PostgresConnector_parse_dsn_from(segments, i + 1)
         IN  [yielded |-> <<PostgresConnector_format(segments[i])>>
                            \o rest.yielded,
              raises |-> rest.raises]

\* Mutant: the dsn is parsed whole before anything is yielded.
PostgresConnector_parse_dsn_eager(data_source_name) ==
    LET parsed == PostgresConnector_parse_dsn_from(
                      PostgresConnector_segments(data_source_name), 1)
    IN  IF parsed.raises THEN [yielded |-> <<>>, raises |-> TRUE]
        ELSE parsed

PostgresConnector_parse_dsn(data_source_name) ==
    PostgresConnector_parse_dsn_from(
        PostgresConnector_segments(data_source_name), 1)

\* The handles the driver returned in a sequence of connect calls.
HandlesOf(calls) == {calls[k].handle : k \in DOMAIN calls} \ {0}

\* Mutant: a failed attempt resets the connection found so far.
RECURSIVE PostgresConnector_loop_failure_resets(_, _, _, _, _, _)
PostgresConnector_loop_failure_resets(cfg, dbname, parsed, i, outcomes, st) ==
    IF i > Len(parsed.yielded)
    THEN IF parsed.raises
         THEN Established(0, [type |-> "ValueError"], st.calls,
                          HandlesOf(st.calls))
         ELSE IF st.connection = 0
         THEN Established(0,
                  ConnectionEstablishError(cfg.name,
                      [dsn |-> cfg.dsn, user |-> cfg.user,
                       dbname |-> dbname],
                      st.last_exception),
                  st.calls, HandlesOf(st.calls))
         ELSE Established(st.connection, NoError, st.calls,
                          HandlesOf(st.calls))
    ELSE LET args == [dsn |-> parsed.yielded[i], user |-> cfg.user,
                      password |-> cfg.password, dbname |-> dbname,
                      params |-> cfg.params]
         IN  IF outcomes[i] = "ok"
             THEN PostgresConnector_loop_failure_resets(cfg, dbname, parsed, i + 1,
                      outcomes,
                      [st EXCEPT !.connection = st.fresh,
                                 !.fresh = st.fresh + 1,
                                 !.calls = Append(st.calls,
                                     ConnectCall(args, "ok", st.fresh))])
             ELSE PostgresConnector_loop_failure_resets(cfg, dbname, parsed, i + 1,
                      outcomes,
                      [st EXCEPT !.connection = 0,
                                 !.last_exception =
                                     DriverError("psycopg2.Error", i),
                                 !.calls = Append(st.calls,
                                     ConnectCall(args, "err", 0))])

\* Mutant: the first failure is kept, later ones are dropped.
RECURSIVE PostgresConnector_loop_first_exception(_, _, _, _, _, _)
PostgresConnector_loop_first_exception(cfg, dbname, parsed, i, outcomes, st) ==
    IF i > Len(parsed.yielded)
    THEN IF parsed.raises
         THEN Established(0, [type |-> "ValueError"], st.calls,
                          HandlesOf(st.calls))
         ELSE IF st.connection = 0
         THEN Established(0,
                  ConnectionEstablishError(cfg.name,
                      [dsn |-> cfg.dsn, user |-> cfg.user,
                       dbname |-> dbname],
                      st.last_exception),
                  st.calls, HandlesOf(st.calls))
         ELSE Established(st.connection, NoError, st.calls,
                          HandlesOf(st.calls))
    ELSE LET args == [dsn |-> parsed.yielded[i], user |-> cfg.user,
                      password |-> cfg.password, dbname |-> dbname,
                      params |-> cfg.params]
         IN  IF outcomes[i] = "ok"
             THEN PostgresConnector_loop_first_exception(cfg, dbname, parsed, i + 1,
                      outcomes,
                      [st EXCEPT !.connection = st.fresh,
                                 !.fresh = st.fresh + 1,
                                 !.calls = Append(st.calls,
                                     ConnectCall(args, "ok", st.fresh))])
             ELSE PostgresConnector_loop_first_exception(cfg, dbname, parsed, i + 1,
                      outcomes,
                      [st EXCEPT !.last_exception =
                                     IF st.last_exception.type = "none"
                                     THEN DriverError("psycopg2.Error", i)
                                     ELSE st.last_exception,
                                 !.calls = Append(st.calls,
                                     ConnectCall(args, "err", 0))])

\* Mutant: the loop stops at the first successful attempt.
RECURSIVE PostgresConnector_loop_stops_at_success(_, _, _, _, _, _)
PostgresConnector_loop_stops_at_success(cfg, dbname, parsed, i, outcomes, st) ==
    IF i > Len(parsed.yielded)
    THEN IF parsed.raises
         THEN Established(0, [type |-> "ValueError"], st.calls,
                          HandlesOf(st.calls))
         ELSE IF st.connection = 0
         THEN Established(0,
                  ConnectionEstablishError(cfg.name,
                      [dsn |-> cfg.dsn, user |-> cfg.user,
                       dbname |-> dbname],
                      st.last_exception),
                  st.calls, HandlesOf(st.calls))
         ELSE Established(st.connection, NoError, st.calls,
                          HandlesOf(st.calls))
    ELSE LET args == [dsn |-> parsed.yielded[i], user |-> cfg.user,
                      password |-> cfg.password, dbname |-> dbname,
                      params |-> cfg.params]
         IN  IF outcomes[i] = "ok"
             THEN PostgresConnector_loop_stops_at_success(cfg, dbname,
                      [yielded |-> SubSeq(parsed.yielded, 1, i),
                       raises |-> FALSE], i + 1,
                      outcomes,
                      [st EXCEPT !.connection = st.fresh,
                                 !.fresh = st.fresh + 1,
                                 !.calls = Append(st.calls,
                                     ConnectCall(args, "ok", st.fresh))])
             ELSE PostgresConnector_loop_stops_at_success(cfg, dbname, parsed, i + 1,
                      outcomes,
                      [st EXCEPT !.last_exception =
                                     DriverError("psycopg2.Error", i),
                                 !.calls = Append(st.calls,
                                     ConnectCall(args, "err", 0))])

\* The loop of PostgresConnector._connect from the i-th yielded address on.
\* outcomes[i] is what psycopg2.connect does on attempt i ("ok" or "err");
\* st holds the loop's locals: connection and last_exception (0 and NoError
\* for None), the connect calls made so far, and fresh, the next handle the
\* driver would return.
RECURSIVE PostgresConnector_loop(_, _, _, _, _, _)
PostgresConnector_loop(cfg, dbname, parsed, i, outcomes, st) ==
    IF i > Len(parsed.yielded)
    THEN IF parsed.raises
         THEN Established(0, [type |-> "ValueError"], st.calls,
                          HandlesOf(st.calls))
         ELSE IF st.connection = 0
         THEN Established(0,
                  ConnectionEstablishError(cfg.name,
                      [dsn |-> cfg.dsn, user |-> cfg.user,
                       dbname |-> dbname],
                      st.last_exception),
                  st.calls, HandlesOf(st.calls))
         ELSE Established(st.connection, NoError, st.calls,
                          HandlesOf(st.calls))
    ELSE LET args == [dsn |-> parsed.yielded[i], user |-> cfg.user,
                      password |-> cfg.password, dbname |-> dbname,
                      params |-> cfg.params]
         IN  IF outcomes[i] = "ok"
             THEN PostgresConnector_loop(cfg, dbname, parsed, i + 1,
                      outcomes,
                      [st EXCEPT !.connection = st.fresh,
                                 !.fresh = st.fresh + 1,
                                 !.calls = Append(st.calls,
                                     ConnectCall(args, "ok", st.fresh))])
             ELSE PostgresConnector_loop(cfg, dbname, parsed, i + 1,
                      outcomes,
                      [st EXCEPT !.last_exception =
                                     DriverError("psycopg2.Error", i),
                                 !.calls = Append(st.calls,
                                     ConnectCall(args, "err", 0))])

\* PostgresConnector._connect.
PostgresConnector_connect(cfg, outcomes, fresh) ==
    LET dbname == IF "dbname" \in DOMAIN cfg THEN cfg.dbname ELSE None
    IN  PostgresConnector_loop(cfg, dbname,
            PostgresConnector_parse_dsn(cfg.dsn), 1, outcomes,
            [connection |-> 0, last_exception |-> NoError, calls |-> <<>>,
             fresh |-> fresh])

\* What the driver may do on the attempts of one establishment call.
ConnectOutcomes(k, cfg) ==
    IF k = "exasol"
    THEN {<<o>> : o \in {"ok"} \cup ExaFailures}
    ELSE [1..Len(PostgresConnector_segments(cfg.dsn)) -> {"ok", "err"}]

\* self._connect() of the connector's class.
Connector_connect(k, cfg, outcomes, fresh) ==
    IF k = "exasol"
    THEN ExasolConnector_connect(cfg, outcomes[1], fresh)
    ELSE PostgresConnector_connect(cfg, outcomes, fresh)

\* -------------------------------------------------------- BaseConnector

\* is_connection_closed of either class: the handle's own closed flag.
is_connection_closed(hs, conn) == hs[conn] = "closed"

\* The next handle a driver returns: one never returned before.
FreshHandle(hs) == 1 + Cardinality({h \in DOMAIN hs : hs[h] # "unborn"})

\* What one call of a connector method did: the slot before and after, the
\* value returned (0: None or nothing), the error raised to the caller, the
\* error _connect raised inside it, how often _connect ran, the connect
\* calls the driver saw, the closed flag of the cached handle when a
\* get_connection began ("none": nothing cached, "raises": reading it
\* raised), whether is_connection_closed was evaluated, what the release did ("uncalled", "ok", "raised"), and the
\* handles the driver opened.
OpRecord(op, pre, post, ret, raised, inner, established, calls, flag, probed, release, created) ==
    [op |-> op, pre |-> pre, post |-> post, ret |-> ret, raised |-> raised,
     inner |-> inner, established |-> established, calls |-> calls,
     flag |-> flag, probed |-> probed, release |-> release,
     created |-> created]

NoOp ==
    OpRecord("none", 0, 0, 0, NoError, NoError, 0, <<>>, "none", FALSE,
             "uncalled", {})

\* The closed flag of the handle in the slot, as a driver would report it.
FlagOf(hs, conn) ==
    IF conn = 0 THEN "none" ELSE IF hs[conn] = "closed" THEN "closed"
    ELSE "open"

\* What the handle raises when its release or its flag read fails.
ReleaseError == DriverError("driver.Error", 0)
FlagReadError == DriverError("driver.Error", -1)

\* Mutant: the cache is never consulted, every call establishes.
get_connection_always_connects(k, cfg, conn, hs, probe, outcomes) ==
    LET e == Connector_connect(k, cfg, outcomes, FreshHandle(hs))
    IN  IF e.raised.type # "none"
        THEN OpRecord("get", conn, conn, 0, e.raised, e.raised, 1, e.calls,
                      FlagOf(hs, conn), FALSE, "uncalled", e.created)
        ELSE OpRecord("get", conn, e.ret, e.ret, NoError, NoError, 1,
                      e.calls, FlagOf(hs, conn), FALSE, "uncalled",
                      e.created)

\* Mutant: a cached handle is returned without the liveness check.
get_connection_skips_liveness(k, cfg, conn, hs, probe, outcomes) ==
    IF conn # 0
    THEN OpRecord("get", conn, conn, conn, NoError, NoError, 0, <<>>,
                  FlagOf(hs, conn), FALSE, "uncalled", {})
    ELSE get_connection_always_connects(k, cfg, conn, hs, probe, outcomes)

\* Mutant: a dead handle is dropped from the slot before _connect runs, and
\* a failure of _connect is swallowed (None is returned).
get_connection_swallows(k, cfg, conn, hs, probe, outcomes) ==
    IF conn # 0 /\ probe = "raise"
    THEN OpRecord("get", conn, conn, 0, FlagReadError, NoError, 0, <<>>,
                  "raises", TRUE, "uncalled", {})
    ELSE IF conn # 0 /\ ~is_connection_closed(hs, conn)
    THEN OpRecord("get", conn, conn, conn, NoError, NoError, 0, <<>>,
                  FlagOf(hs, conn), TRUE, "uncalled", {})
    ELSE LET e == Connector_connect(k, cfg, outcomes, FreshHandle(hs))
         IN  OpRecord("get", conn, e.ret, e.ret, NoError, e.raised, 1,
                      e.calls, FlagOf(hs, conn), conn # 0, "uncalled",
                      e.created)

\* BaseConnector.get_connection; probe: whether reading the handle's closed
\* flag gives the flag ("flag") or raises ("raise"), which nothing in
\* get_connection catches; outcomes: what the driver does on each connect.
get_connection(k, cfg, conn, hs, probe, outcomes) ==
    IF conn # 0 /\ probe = "raise"
    THEN OpRecord("get", conn, conn, 0, FlagReadError, NoError, 0, <<>>,
                  "raises", TRUE, "uncalled", {})
    ELSE IF conn # 0 /\ ~is_connection_closed(hs, conn)
    THEN OpRecord("get", conn, conn, conn, NoError, NoError, 0, <<>>,
                  FlagOf(hs, conn), TRUE, "uncalled", {})
    ELSE LET e == Connector_connect(k, cfg, outcomes, FreshHandle(hs))
         IN  IF e.raised.type # "none"
             THEN OpRecord("get", conn, conn, 0, e.raised, e.raised, 1,
                           e.calls, FlagOf(hs, conn), conn # 0, "uncalled",
                           e.created)
             ELSE OpRecord("get", conn, e.ret, e.ret, NoError, NoError, 1,
                           e.calls, FlagOf(hs, conn), conn # 0, "uncalled",
                           e.created)

\* Mutant: the release is called but the slot is not cleared.
close_keeps_handle(conn, outcome) ==
    IF conn = 0
    THEN OpRecord("close", 0, 0, 0, NoError, NoError, 0, <<>>, "none",
                  FALSE, "uncalled", {})
    ELSE IF outcome = "ok"
    THEN OpRecord("close", conn, conn, 0, NoError, NoError, 0, <<>>, "none",
                  FALSE, "ok", {})
    ELSE OpRecord("close", conn, conn, 0, ReleaseError,
                  NoError, 0, <<>>, "none", FALSE, "raised", {})

\* Mutant: no guard for an empty slot, None.close() raises AttributeError.
close_without_guard(conn, outcome) ==
    IF conn = 0
    THEN OpRecord("close", 0, 0, 0, [type |-> "AttributeError"], NoError, 0,
                  <<>>, "none", FALSE, "uncalled", {})
    ELSE IF outcome = "ok"
    THEN OpRecord("close", conn, 0, 0, NoError, NoError, 0, <<>>, "none",
                  FALSE, "ok", {})
    ELSE OpRecord("close", conn, conn, 0, ReleaseError,
                  NoError, 0, <<>>, "none", FALSE, "raised", {})

\* Mutant: the slot is cleared before the release is called.
close_clears_first(conn, outcome) ==
    IF conn = 0
    THEN OpRecord("close", 0, 0, 0, NoError, NoError, 0, <<>>, "none",
                  FALSE, "uncalled", {})
    ELSE IF outcome = "ok"
    THEN OpRecord("close", conn, 0, 0, NoError, NoError, 0, <<>>, "none",
                  FALSE, "ok", {})
    ELSE OpRecord("close", conn, 0, 0, ReleaseError,
                  NoError, 0, <<>>, "none", FALSE, "raised", {})

\* BaseConnector.close; outcome: what the handle's own close() does ("ok",
\* or "raise": nothing in close() catches it).
\* Mutant: a failure of the release is suppressed and the slot cleared.
close_suppresses(conn, outcome) ==
    IF conn = 0
    THEN OpRecord("close", 0, 0, 0, NoError, NoError, 0, <<>>, "none",
                  FALSE, "uncalled", {})
    ELSE OpRecord("close", conn, 0, 0, NoError, NoError, 0, <<>>, "none",
                  FALSE, IF outcome = "ok" THEN "ok" ELSE "raised", {})

close(conn, outcome) ==
    IF conn = 0
    THEN OpRecord("close", 0, 0, 0, NoError, NoError, 0, <<>>, "none",
                  FALSE, "uncalled", {})
    ELSE IF outcome = "ok"
    THEN OpRecord("close", conn, 0, 0, NoError, NoError, 0, <<>>, "none",
                  FALSE, "ok", {})
    ELSE OpRecord("close", conn, conn, 0, ReleaseError,
                  NoError, 0, <<>>, "none", FALSE, "raised", {})

\* ------------------------------------------------------------- behaviour

\* The callers that may drive one connector at the same time.
Threads == {"t1", "t2"}

\* A caller's position inside a connector method and the method's locals:
\* pc (the line it is about to run, "idle" between calls), op, status
\* ("running", "returned", "raised") and err (the class of the error
\* raised) of its current or latest call, seen (the slot as line 30 or 37
\* read it), est (the handle _connect returned to it), ret (the value
\* returned), ran_connect (whether _connect ran) and overlapped (whether
\* another caller was inside a method during the call).
Frame(pc, op, status, err, seen, est, ret, ran_connect, overlapped) ==
    [pc |-> pc, op |-> op, status |-> status, err |-> err, seen |-> seen,
     est |-> est, ret |-> ret, ran_connect |-> ran_connect,
     overlapped |-> overlapped]

IdleFrame == Frame("idle", "none", "none", "none", 0, 0, 0, FALSE, FALSE)

Init ==
    /\ kind \in {"exasol", "postgres"}
    /\ config \in IF kind = "exasol" THEN ExasolConfigs ELSE PostgresConfigs
    /\ connection = 0
    /\ handles = [h \in Handles |-> "unborn"]
    /\ released = [h \in Handles |-> "no"]
    /\ last = NoOp
    /\ prev = NoOp
    /\ threads = [t \in Threads |-> IdleFrame]

\* A caller calls get_connection(); the driver answers each connect.
GetConnection ==
    \E probe \in {"flag", "raise"}, outcomes \in ConnectOutcomes(kind, config) :
        LET r == get_connection(kind, config, connection, handles, probe,
                                outcomes)
        IN  /\ r.created \subseteq Handles
            /\ connection' = r.post
            /\ handles' = [h \in Handles |->
                              IF h \in r.created THEN "open" ELSE handles[h]]
            /\ prev' = last
            /\ last' = r
            /\ UNCHANGED <<kind, config, released, threads>>

\* A caller calls close(); the handle's close() succeeds or raises, and a
\* close() that raised leaves the handle open or closed.
Close ==
    \E outcome \in {"ok", "raise"}, after \in {"open", "closed"} :
        LET r == close(connection, outcome)
        IN  /\ outcome = "ok" => after = "closed"
            /\ connection # 0 /\ handles[connection] = "closed"
                  => after = "closed"
            /\ connection' = r.post
            /\ handles' = IF r.release = "uncalled" THEN handles
                          ELSE [handles EXCEPT ![connection] = after]
            /\ released' =
                  IF r.release = "uncalled" THEN released
                  ELSE [released EXCEPT ![connection] =
                           IF r.release = "ok" THEN "returned"
                           ELSE "raised"]
            /\ prev' = last
            /\ last' = r
            /\ UNCHANGED <<kind, config, threads>>

\* The driver marks an open handle closed (the server drops it, or the
\* holder of the handle closes it directly).
DriverClosesHandle ==
    \E h \in Handles :
        /\ handles[h] = "open"
        /\ handles' = [handles EXCEPT ![h] = "closed"]
        /\ UNCHANGED <<kind, config, connection, released, last, prev, threads>>

Next == GetConnection \/ Close \/ DriverClosesHandle

Spec == Init /\ [][Next]_vars

\* --------------------------------------------- concurrent specification

\* Caller t moves to frame f; every other caller that is inside a method
\* has now overlapped with another caller.
Advance(t, f) ==
    threads' = [x \in Threads |->
                   IF x = t THEN f
                   ELSE IF threads[x].pc # "idle"
                   THEN [threads[x] EXCEPT !.overlapped = TRUE]
                   ELSE threads[x]]

\* Caller t takes a step that stays inside its method.
Goto(t, pc) == Advance(t, [threads[t] EXCEPT !.pc = pc])

\* Caller t's method ends by raising an error of class err.
Raise(t, err) ==
    Advance(t, [threads[t] EXCEPT !.pc = "idle", !.status = "raised",
                                  !.err = err])

\* Caller t's method returns v.
Return(t, v) ==
    Advance(t, [threads[t] EXCEPT !.pc = "idle", !.status = "returned",
                                  !.ret = v])

\* The frame of caller t as it enters method op at line pc.
Enter(t, op, pc) ==
    Frame(pc, op, "running", "none", 0, 0, 0, FALSE,
          \E u \in Threads \ {t} : threads[u].pc # "idle")

\* Caller t calls get_connection().
CallGetConnection(t) ==
    /\ threads[t].pc = "idle"
    /\ Advance(t, Enter(t, "get", "get_30"))
    /\ UNCHANGED <<kind, config, connection, handles, released, last, prev>>

\* Caller t calls close().
CallClose(t) ==
    /\ threads[t].pc = "idle"
    /\ Advance(t, Enter(t, "close", "close_37"))
    /\ UNCHANGED <<kind, config, connection, handles, released, last, prev>>

\* Line 30, left operand: the truth value of self.connection.
GetTestSlot(t) ==
    /\ threads[t].pc = "get_30"
    /\ Advance(t, [threads[t] EXCEPT
                      !.seen = connection,
                      !.pc = IF connection = 0 THEN "get_32"
                             ELSE "get_30_probe"])
    /\ UNCHANGED <<kind, config, connection, handles, released, last, prev>>

\* Line 30, right operand: is_connection_closed() reads self.connection
\* again and then the handle's flag; on None the attribute read raises.
GetProbe(t) ==
    /\ threads[t].pc = "get_30_probe"
    /\ \E probe \in {"flag", "raise"} :
          IF connection = 0 THEN Raise(t, "AttributeError")
          ELSE IF probe = "raise" THEN Raise(t, FlagReadError.type)
          ELSE IF is_connection_closed(handles, connection)
          THEN Goto(t, "get_32")
          ELSE Goto(t, "get_31")
    /\ UNCHANGED <<kind, config, connection, handles, released, last, prev>>

\* Line 31: return self.connection, read as it is now.
GetReturnCached(t) ==
    /\ threads[t].pc = "get_31"
    /\ Return(t, connection)
    /\ UNCHANGED <<kind, config, connection, handles, released, last, prev>>

\* Line 32, right-hand side: self._connect().
GetConnect(t) ==
    /\ threads[t].pc = "get_32"
    /\ \E outcomes \in ConnectOutcomes(kind, config) :
          LET e == Connector_connect(kind, config, outcomes,
                                     FreshHandle(handles))
          IN  /\ e.created \subseteq 1..MaxRaceHandles
              /\ handles' = [h \in Handles |->
                                IF h \in e.created THEN "open"
                                ELSE handles[h]]
              /\ IF e.raised.type # "none"
                 THEN Advance(t, [threads[t] EXCEPT
                                     !.pc = "idle", !.status = "raised",
                                     !.err = e.raised.type,
                                     !.ran_connect = TRUE])
                 ELSE Advance(t, [threads[t] EXCEPT
                                     !.pc = "get_32_store", !.est = e.ret,
                                     !.ran_connect = TRUE])
    /\ UNCHANGED <<kind, config, connection, released, last, prev>>

\* Mutant: the handle is stored only while the slot is still empty.
GetStore_if_empty(t) ==
    /\ threads[t].pc = "get_32_store"
    /\ connection' = IF connection = 0 THEN threads[t].est ELSE connection
    /\ Goto(t, "get_33")
    /\ UNCHANGED <<kind, config, handles, released, last, prev>>

\* Line 32, the assignment: self.connection = <the new handle>.
GetStore(t) ==
    /\ threads[t].pc = "get_32_store"
    /\ connection' = threads[t].est
    /\ Goto(t, "get_33")
    /\ UNCHANGED <<kind, config, handles, released, last, prev>>

\* Mutant: the handle _connect returned is returned, not the slot.
GetReturn_local(t) ==
    /\ threads[t].pc = "get_33"
    /\ Return(t, threads[t].est)
    /\ UNCHANGED <<kind, config, connection, handles, released, last, prev>>

\* Line 33: return self.connection, read as it is now.
GetReturn(t) ==
    /\ threads[t].pc = "get_33"
    /\ Return(t, connection)
    /\ UNCHANGED <<kind, config, connection, handles, released, last, prev>>

\* Lines 37-38: if not self.connection: return.
CloseTestSlot(t) ==
    /\ threads[t].pc = "close_37"
    /\ IF connection = 0
       THEN Advance(t, [threads[t] EXCEPT !.pc = "idle",
                                          !.status = "returned"])
       ELSE Advance(t, [threads[t] EXCEPT !.pc = "close_39",
                                          !.seen = connection])
    /\ UNCHANGED <<kind, config, connection, handles, released, last, prev>>

\* Line 39: self.connection.close() on the slot as it is now; on None the
\* attribute read raises, and the handle's close() may raise.
CloseRelease(t) ==
    /\ threads[t].pc = "close_39"
    /\ IF connection = 0
       THEN /\ Raise(t, "AttributeError")
            /\ UNCHANGED <<handles, released>>
       ELSE \E outcome \in {"ok", "raise"}, after \in {"open", "closed"} :
               /\ outcome = "ok" => after = "closed"
               /\ handles[connection] = "closed" => after = "closed"
               /\ handles' = [handles EXCEPT ![connection] = after]
               /\ released' = [released EXCEPT ![connection] =
                                  IF outcome = "ok" THEN "returned"
                                  ELSE "raised"]
               /\ IF outcome = "ok" THEN Goto(t, "close_40")
                  ELSE Raise(t, ReleaseError.type)
    /\ UNCHANGED <<kind, config, connection, last, prev>>

\* Line 40: self.connection = None.
CloseClear(t) ==
    /\ threads[t].pc = "close_40"
    /\ connection' = 0
    /\ Advance(t, [threads[t] EXCEPT !.pc = "idle", !.status = "returned"])
    /\ UNCHANGED <<kind, config, handles, released, last, prev>>

\* One connector of either class with a one-address dsn, shared by the
\* callers.
InitRace ==
    /\ kind \in {"exasol", "postgres"}
    /\ config = BaseConfig(Dsn_single, EmptyDict)
    /\ connection = 0
    /\ handles = [h \in Handles |-> "unborn"]
    /\ released = [h \in Handles |-> "no"]
    /\ last = NoOp
    /\ prev = NoOp
    /\ threads = [t \in Threads |-> IdleFrame]

ThreadStep(t) ==
    \/ CallGetConnection(t)
    \/ GetTestSlot(t)
    \/ GetProbe(t)
    \/ GetReturnCached(t)
    \/ GetConnect(t)
    \/ GetStore(t)
    \/ GetReturn(t)
    \/ CallClose(t)
    \/ CloseTestSlot(t)
    \/ CloseRelease(t)
    \/ CloseClear(t)

NextRace == (\E t \in Threads : ThreadStep(t)) \/ DriverClosesHandle

SpecRace == InitRace /\ [][NextRace]_vars

\* ------------------------------------------------- parsing specification

\* What draining the generator _parse_dsn gave: the strings it yielded and
\* whether it then raised ValueError.
ParseRecord(parsed) ==
    [op |-> "parse_dsn", yielded |-> parsed.yielded, raises |-> parsed.raises]

\* A PostgresConnector over any bounded dsn string, or an ExasolConnector
\* (which hands its dsn to the driver unparsed) over the empty or a one-address dsn.
InitParse ==
    /\ kind \in {"exasol", "postgres"}
    /\ config \in {BaseConfig(d, EmptyDict) :
                      d \in IF kind = "postgres" THEN DsnStrings
                            ELSE {<<>>, Dsn_single}}
    /\ connection = 0
    /\ handles = [h \in Handles |-> "unborn"]
    /\ released = [h \in Handles |-> "no"]
    /\ last = NoOp
    /\ prev = NoOp
    /\ threads = [t \in Threads |-> IdleFrame]

\* A caller drains PostgresConnector._parse_dsn(config.dsn).
ParseDsn ==
    /\ kind = "postgres"
    /\ last' = ParseRecord(PostgresConnector_parse_dsn(config.dsn))
    /\ prev' = last
    /\ UNCHANGED <<kind, config, connection, handles, released, threads>>

\* A caller's get_connection() on a connector that has no handle yet.
FirstGetConnection ==
    /\ \A h \in Handles : handles[h] = "unborn"
    /\ last.op # "get"
    /\ GetConnection

NextParse == ParseDsn \/ FirstGetConnection

SpecParse == InitParse /\ [][NextParse]_vars

TypeOK ==
    /\ kind \in {"exasol", "postgres"}
    /\ connection \in {0} \cup Handles
    /\ handles \in [Handles -> {"unborn", "open", "closed"}]
    /\ released \in [Handles -> {"no", "raised", "returned"}]
    /\ last.op \in {"none", "get", "close"}
    /\ prev.op \in {"none", "get", "close"}

\* ----------------------------------------------------------------- claims

\* A step in which a connector method ran (the two-call history moved).
MethodStep == <<last', prev'>> # <<last, prev>>

Returned(r) == r.raised.type = "none"

\* C1. Reuse law: when get_connection() is called twice in a row and the
\* cached handle's closed flag reads open at the second call, the second
\* call returns the very handle the first returned and does not run
\* _connect (no establishment, no driver connect call).
C1_ReuseLaw ==
    (prev.op = "get" /\ Returned(prev) /\ last.op = "get"
        /\ last.flag = "open")
    => /\ Returned(last)
       /\ last.ret = prev.ret
       /\ last.established = 0
       /\ last.calls = <<>>
       /\ connection = prev.ret

C1_Witness ==
    /\ prev.op = "get" /\ Returned(prev) /\ prev.established = 1
    /\ last.op = "get" /\ last.flag = "open"
    /\ last.ret = prev.ret /\ last.ret # 0

\* C2. Dead-handle law: when a handle is cached and its closed flag reads
\* closed as get_connection() is called, that call runs _connect exactly
\* once; when it returns, the slot holds the handle it returns, which is a
\* new one: not the dead handle, not the one the previous call returned, not
\* any handle the driver had handed out before.
C2_DeadHandleLaw ==
    (last.op = "get" /\ last.pre # 0 /\ last.flag = "closed")
    => /\ last.established = 1
       /\ last.probed
       /\ Returned(last) =>
            /\ last.ret # 0
            /\ last.post = last.ret
            /\ connection = last.ret
            /\ last.ret # last.pre
            /\ last.ret \in last.created
            /\ last.ret > last.pre
            /\ (prev.op = "get" /\ Returned(prev)) => last.ret # prev.ret

C2_Witness ==
    /\ prev.op = "get" /\ Returned(prev) /\ prev.ret # 0
    /\ last.op = "get" /\ last.pre = prev.ret /\ last.flag = "closed"
    /\ Returned(last) /\ last.ret # prev.ret /\ connection = last.ret

\* C3. After close() returns on a connector that had a cached handle the
\* slot is None, and the next get_connection() runs _connect (without
\* consulting any cached handle) and never returns the closed handle.
C3_CloseThenGet ==
    /\ (last.op = "close" /\ last.pre # 0 /\ Returned(last))
         => connection = 0
    /\ (prev.op = "close" /\ prev.pre # 0 /\ Returned(prev)
           /\ last.op = "get")
         => /\ last.pre = 0
            /\ last.established = 1
            /\ ~last.probed
            /\ last.ret # prev.pre
            /\ connection # prev.pre

C3_Witness ==
    /\ prev.op = "close" /\ prev.pre # 0 /\ Returned(prev)
    /\ last.op = "get" /\ Returned(last) /\ last.ret # 0
    /\ last.ret # prev.pre

\* C4. close() on a connector whose slot is None is a no-op: it raises
\* nothing, calls no driver operation (no release, no flag read, no
\* connect), and leaves the slot None and the configuration, the connector's
\* class and every handle as they were.
C4_CloseOnEmptySlot ==
    [][(MethodStep /\ last'.op = "close" /\ connection = 0)
       => /\ Returned(last')
          /\ last'.release = "uncalled" /\ ~last'.probed
          /\ last'.calls = <<>> /\ last'.established = 0
          /\ connection' = 0
          /\ UNCHANGED <<kind, config, handles, released>>]_vars

C4_Witness ==
    /\ last.op = "close" /\ last.pre = 0 /\ last.release = "uncalled"
    /\ prev.op = "none"
    /\ connection = 0

\* C5 as stated: close() never raises, and of two close() calls in a row at
\* most one invokes the handle's release and the second leaves the slot as
\* the first left it.
C5_CloseNeverFails ==
    /\ last.op = "close" => Returned(last)
    /\ (prev.op = "close" /\ last.op = "close")
         => /\ last.post = prev.post
            /\ ~(prev.release # "uncalled" /\ last.release # "uncalled")

\* C5, amended. close() raises only when the handle's release raises, and
\* then the slot still holds the handle; whenever close() returns the slot
\* is None; and a close() right after a close() that returned is a no-op: it
\* raises nothing, invokes no release (the release ran at most once over
\* the two calls) and changes nothing.
C5_CloseIdempotent ==
    [][(MethodStep /\ last'.op = "close")
       => /\ ~Returned(last') =>
               /\ last'.release = "raised"
               /\ connection # 0 /\ connection' = connection
          /\ Returned(last') =>
               /\ last'.release \in {"ok", "uncalled"}
               /\ connection' = 0
          /\ (last.op = "close" /\ Returned(last)) =>
               /\ Returned(last')
               /\ last'.release = "uncalled"
               /\ UNCHANGED <<kind, config, connection, handles, released>>
      ]_vars

C5_Witness ==
    /\ prev.op = "close" /\ prev.release = "ok" /\ Returned(prev)
    /\ last.op = "close" /\ last.release = "uncalled" /\ Returned(last)
    /\ connection = 0

\* C6. When _connect raises inside get_connection(), get_connection()
\* raises that very error and returns nothing, and the slot is as it was
\* before the call: None stays None, a dead handle stays cached.
C6_EstablishFailurePropagates ==
    (last.op = "get" /\ last.inner.type # "none")
    => /\ last.raised = last.inner
       /\ last.ret = 0
       /\ last.post = last.pre
       /\ connection = last.pre

C6_Witness ==
    /\ last.op = "get" /\ last.inner.type = "ConnectionEstablishError"
    /\ last.raised = last.inner
    /\ last.pre # 0 /\ last.flag = "closed" /\ connection = last.pre

\* Every segment of the dsn is host:port: exactly one colon.
WellFormed(dsn) ==
    \A k \in DOMAIN str_split(dsn, ",") :
        LET seg == str_split(dsn, ",")[k]
        IN  Cardinality({i \in DOMAIN seg : seg[i] = ":"}) = 1

\* The establishment call of a PostgresConnector over a well-formed dsn.
PostgresEstablished ==
    /\ kind = "postgres" /\ last.op = "get" /\ last.established = 1
    /\ WellFormed(config.dsn)

\* C7. Row-store failover: over well-formed addresses, when at least one
\* connect attempt succeeds, _connect raises nothing and returns a handle
\* that a successful attempt produced, whatever the other attempts raised
\* before or after it.
C7_PostgresFailover ==
    (PostgresEstablished
        /\ \E k \in DOMAIN last.calls : last.calls[k].outcome = "ok")
    => /\ Returned(last)
       /\ last.ret # 0
       /\ \E k \in DOMAIN last.calls :
             /\ last.calls[k].outcome = "ok"
             /\ last.calls[k].handle = last.ret

C7_Witness ==
    /\ PostgresEstablished /\ Len(last.calls) = 2
    /\ last.calls[1].outcome = "ok" /\ last.calls[2].outcome = "err"
    /\ Returned(last) /\ last.ret = last.calls[1].handle

\* C8. Row-store total failure: over well-formed addresses, when every
\* connect attempt raises a driver error, _connect raises
\* ConnectionEstablishError with the configuration name, the dsn as
\* configured (unparsed), the user and the resolved database name (None
\* when the configuration has none), caused by the failure of the last
\* attempt.
C8_PostgresTotalFailure ==
    (PostgresEstablished
        /\ \A k \in DOMAIN last.calls : last.calls[k].outcome = "err")
    => /\ last.raised.type = "ConnectionEstablishError"
       /\ last.raised.name = config.name
       /\ DOMAIN last.raised.kwargs = {"dsn", "user", "dbname"}
       /\ last.raised.kwargs.dsn = config.dsn
       /\ last.raised.kwargs.user = config.user
       /\ last.raised.kwargs.dbname =
             (IF "dbname" \in DOMAIN config THEN config.dbname ELSE None)
       /\ last.raised.cause.type = "psycopg2.Error"
       /\ last.raised.cause.attempt = Len(last.calls)
       /\ Len(last.calls) = Len(str_split(config.dsn, ","))

C8_Witness ==
    /\ PostgresEstablished /\ Len(last.calls) = 2
    /\ last.calls[1].outcome = "err" /\ last.calls[2].outcome = "err"
    /\ last.raised.type = "ConnectionEstablishError"
    /\ last.raised.cause.attempt = 2

\* The diagnostic fields the failure mapping gives each driver failure.
ExpectedExasolFields(cls) ==
    CASE cls = "ExaConnectionDsnError" ->
            [reason |-> "Bad dsn", dsn |-> config.dsn]
      [] cls = "ExaAuthError" ->
            [reason |-> "Authentication failed", dsn |-> config.dsn,
             user |-> config.user]
      [] cls = "ExaConnectionFailedError" ->
            [reason |-> "Connection refused", dsn |-> config.dsn]
      [] OTHER -> [dsn |-> config.dsn]

\* C9. Columnar failure mapping: every driver failure of the connect call
\* in ExasolConnector._connect becomes ConnectionEstablishError with the
\* configuration name, caused by that failure, and with the fields of the
\* first matching clause: "Bad dsn" and dsn; "Authentication failed", dsn
\* and user; "Connection refused" and dsn; for any other driver error dsn
\* alone, without a reason.
C9_ExasolFailureMapping ==
    (kind = "exasol" /\ last.op = "get" /\ last.established = 1
        /\ last.calls[1].outcome # "ok")
    => /\ Len(last.calls) = 1
       /\ last.raised.type = "ConnectionEstablishError"
       /\ last.raised.name = config.name
       /\ last.raised.cause = DriverError(last.calls[1].outcome, 1)
       /\ last.raised.kwargs = ExpectedExasolFields(last.calls[1].outcome)

C9_Witness ==
    /\ kind = "exasol" /\ last.op = "get"
    /\ last.established = 1
    /\ last.calls[1].outcome = "ExaAuthError"
    /\ last.raised.type = "ConnectionEstablishError"
    /\ "user" \in DOMAIN last.raised.kwargs

\* C10. Columnar parameter merge: the parameters ExasolConnector._connect
\* passes to the driver are compression=True, plus schema when the
\* configuration defines one, overlaid by the configuration's params: every
\* key of config.params is passed with the configuration's value, and the
\* default compression=True is what is passed only when config.params has
\* no compression key.
C10_ExasolParamsMerge ==
    (kind = "exasol" /\ last.op = "get" /\ last.established = 1)
    => LET p == last.calls[1].args.params
       IN  /\ DOMAIN p = {"compression"} \cup (DOMAIN config.params)
                 \cup (IF "schema" \in DOMAIN config THEN {"schema"} ELSE {})
           /\ \A k \in DOMAIN config.params : p[k] = config.params[k]
           /\ "compression" \notin DOMAIN config.params
                 => p.compression = TRUE
           /\ ("schema" \in DOMAIN config
                  /\ "schema" \notin DOMAIN config.params)
                 => p.schema = config.schema

C10_Witness ==
    /\ kind = "exasol" /\ last.op = "get" /\ last.established = 1
    /\ "schema" \in DOMAIN config /\ config.schema = "S"
    /\ "compression" \in DOMAIN config.params
    /\ last.calls[1].args.params = [schema |-> "S", compression |-> FALSE]

\* A segment without its leading and trailing whitespace, by position.
Trimmed(seg) ==
    LET solid == {i \in DOMAIN seg : seg[i] \notin Whitespace}
    IN  IF solid = {} THEN <<>>
        ELSE SubSeq(seg,
                    CHOOSE i \in solid : \A j \in solid : i <= j,
                    CHOOSE i \in solid : \A j \in solid : j <= i)

\* "host=<h> port=<p>" for a segment with exactly one colon: h is what
\* precedes the colon in the trimmed segment, p what follows it.
ExpectedAddress(seg) ==
    LET t == Trimmed(seg)
        c == CHOOSE i \in DOMAIN t : t[i] = ":"
    IN  <<"h", "o", "s", "t", "=">> \o SubSeq(t, 1, c - 1)
        \o <<" ", "p", "o", "r", "t", "=">> \o SubSeq(t, c + 1, Len(t))

\* C11. Row-store address parsing: for a dsn of comma-separated host:port
\* segments, each with optional surrounding whitespace, _parse_dsn raises
\* nothing and yields exactly one string per segment, in input order, each
\* "host=<h> port=<p>" of its segment with the surrounding whitespace
\* trimmed.
C11_ParseWellFormed ==
    (last.op = "parse_dsn" /\ WellFormed(config.dsn))
    => LET segs == str_split(config.dsn, ",")
       IN  /\ ~last.raises
           /\ Len(last.yielded) = Len(segs)
           /\ \A k \in DOMAIN segs :
                 last.yielded[k] = ExpectedAddress(segs[k])

C11_Witness ==
    /\ last.op = "parse_dsn" /\ WellFormed(config.dsn)
    /\ config.dsn = <<"a", ":", ",", " ", ":">>
    /\ last.yielded = << <<"h", "o", "s", "t", "=", "a", " ", "p", "o", "r", "t", "=">>,
                         <<"h", "o", "s", "t", "=", " ", "p", "o", "r", "t", "=">> >>

\* The connect attempts of one establishment call that succeeded.
Succeeded(calls) == {k \in DOMAIN calls : calls[k].outcome = "ok"}

\* C12. Row-store attempt loop: over well-formed addresses _connect makes
\* one connect attempt per address, in input order, whatever earlier
\* attempts did (a success does not end the loop), and when an attempt
\* succeeded it returns the handle of the last successful attempt.
C12_AttemptsEveryAddress ==
    (kind = "postgres" /\ last.op = "get" /\ last.established = 1
        /\ WellFormed(config.dsn))
    => LET segs == str_split(config.dsn, ",")
           ok == Succeeded(last.calls)
       IN  /\ Len(last.calls) = Len(segs)
           /\ \A k \in DOMAIN segs :
                 last.calls[k].args.dsn = ExpectedAddress(segs[k])
           /\ ok # {} =>
                 /\ Returned(last)
                 /\ \E k \in ok : /\ \A j \in ok : j <= k
                                  /\ last.ret = last.calls[k].handle

C12_Witness ==
    /\ kind = "postgres" /\ last.op = "get" /\ WellFormed(config.dsn)
    /\ config.dsn = <<":", ",", ":", ",", ":">>
    /\ Len(last.calls) = 3
    /\ last.calls[1].outcome = "ok" /\ last.calls[2].outcome = "ok"
    /\ last.calls[3].outcome = "err"
    /\ last.ret = last.calls[2].handle
    /\ last.calls[1].handle # last.ret

\* The handles that are live: open, and not released by a close() that
\* returned.
Live == {h \in Handles : handles[h] = "open" /\ released[h] # "returned"}

\* C13. Single-slot invariant: under a single caller at most one handle is
\* live at any time, and no get_connection() leaves open a handle that it
\* neither caches nor returns.
C13_SingleLiveHandle ==
    /\ Cardinality(Live) <= 1
    /\ last.op = "get" =>
          \A h \in last.created :
              handles[h] = "open" => (h = last.post \/ h = last.ret)

\* C14 as stated: is_connection_closed is evaluated only while a handle is
\* cached, and never on a handle on which close() has invoked the release.
C14_NeverProbesReleased ==
    /\ last.op = "close" => ~last.probed
    /\ (last.op = "get" /\ last.probed)
         => /\ last.pre # 0
            /\ released[last.pre] = "no"

\* C14, amended. Under a single caller is_connection_closed is evaluated
\* exactly by the get_connection() calls that find a handle cached, and
\* never on a handle whose release returned; a handle whose release raised
\* stays cached and is inspected by the next get_connection().
C14_ProbesOnlyCachedUnreleased ==
    /\ last.op = "close" => ~last.probed
    /\ last.op = "get" =>
          /\ last.probed <=> last.pre # 0
          /\ last.probed => released[last.pre] # "returned"
    /\ (prev.op = "close" /\ prev.release = "raised" /\ last.op = "get")
         => /\ last.probed
            /\ last.pre = prev.pre
            /\ released[last.pre] = "raised"

C14_Witness ==
    /\ prev.op = "close" /\ prev.release = "raised"
    /\ last.op = "get" /\ last.probed /\ last.pre = prev.pre
    /\ released[last.pre] = "raised"

\* Caller t runs the assignment of line 32 in this step.
Stores(t) ==
    threads[t].pc = "get_32_store" /\ threads'[t].pc = "get_33"

\* Caller u found the slot empty, established a handle and stored it, and
\* that handle is what the slot holds.
StoredFirst(u) ==
    /\ threads[u].op = "get"
    /\ threads[u].pc \in {"get_33", "idle"}
    /\ threads[u].seen = 0
    /\ threads[u].ran_connect
    /\ threads[u].est # 0
    /\ connection = threads[u].est

\* C15: get_connection() is unsynchronized: when two callers both found
\* the slot empty, both ran the establishment routine, and the second
\* assignment of line 32 overwrites the first: the slot then holds the
\* second caller's handle, and the first caller's handle is no longer
\* cached while the step leaves it as open as it was.
C15_SecondStoreOverwrites ==
    [][\A t \in Threads : \A u \in Threads \ {t} :
          (Stores(t) /\ threads[t].seen = 0 /\ StoredFirst(u))
          => /\ threads[t].ran_connect
             /\ threads[t].est # threads[u].est
             /\ connection' = threads[t].est
             /\ connection' # threads[u].est
             /\ handles'[threads[u].est] = handles[threads[u].est]]_vars

C15_Witness ==
    /\ \A t \in Threads :
          /\ threads[t].op = "get"
          /\ threads[t].status = "returned"
          /\ threads[t].pc = "idle"
          /\ threads[t].seen = 0
          /\ threads[t].ran_connect
          /\ threads[t].overlapped
    /\ threads["t1"].est # threads["t2"].est
    /\ connection = threads["t2"].est
    /\ handles[threads["t1"].est] = "open"
    /\ handles[threads["t2"].est] = "open"
    /\ released[threads["t1"].est] = "no"

\* The colons of a segment.
Colons(seg) == {i \in DOMAIN seg : seg[i] = ":"}

\* The first segment of a dsn that is not host:port.
FirstMalformed(dsn) ==
    LET segs == str_split(dsn, ",")
        bad == {k \in DOMAIN segs : Cardinality(Colons(segs[k])) # 1}
    IN  CHOOSE k \in bad : \A j \in bad : k <= j

\* C16. Lazy row-store parsing: when segment i of the dsn is the first that
\* is not host:port, _connect attempts the addresses of the segments
\* before i, in order, and then the parsing failure leaves _connect and
\* get_connection() as it is (a ValueError, not a
\* ConnectionEstablishError), with no further attempt and the cached
\* handle unchanged.
C16_LazyParseFailure ==
    (kind = "postgres" /\ last.op = "get" /\ last.established = 1
        /\ ~WellFormed(config.dsn))
    => LET segs == str_split(config.dsn, ",")
           bad == FirstMalformed(config.dsn)
       IN  /\ Len(last.calls) = bad - 1
           /\ \A k \in 1..(bad - 1) :
                 last.calls[k].args.dsn = ExpectedAddress(segs[k])
           /\ last.raised = [type |-> "ValueError"]
           /\ last.inner = last.raised
           /\ last.ret = 0
           /\ last.post = last.pre
           /\ connection = last.pre

C16_Witness ==
    /\ kind = "postgres" /\ last.op = "get" /\ last.established = 1
    /\ config.dsn = <<":", ",", ":", ",", "a">>
    /\ Len(last.calls) = 2
    /\ last.calls[1].outcome = "ok" /\ last.calls[2].outcome = "err"
    /\ last.raised.type = "ValueError"
    /\ connection = 0

\* "host=<h> port=<p>" for a segment split on its last colon: h is what
\* precedes the last colon of the trimmed segment, p what follows it.
ExpectedAddressLastColon(seg) ==
    LET t == Trimmed(seg)
        c == CHOOSE i \in Colons(t) : \A j \in Colons(t) : j <= i
    IN  <<"h", "o", "s", "t", "=">> \o SubSeq(t, 1, c - 1)
        \o <<" ", "p", "o", "r", "t", "=">> \o SubSeq(t, c + 1, Len(t))

\* C17. Row-store address parsing splits each trimmed segment on its last
\* colon: when every segment of the dsn holds a colon, also more than one,
\* _parse_dsn raises nothing and yields one string per segment, whose host
\* is what precedes the segment's last colon and whose port is what
\* follows it.
C17_SplitsOnLastColon ==
    LET segs == str_split(config.dsn, ",")
    IN  (last.op = "parse_dsn" /\ \A k \in DOMAIN segs : Colons(segs[k]) # {})
        => /\ ~last.raises
           /\ Len(last.yielded) = Len(segs)
           /\ \A k \in DOMAIN segs :
                 last.yielded[k] = ExpectedAddressLastColon(segs[k])

\* The classes of failure the drivers' connect primitives raise.
DriverFailures == ExaFailures \cup {"psycopg2.Error"}

\* C18. Every ConnectionEstablishError an establishment routine raises
\* carries the configuration's name and is chained from a driver failure
\* that one of the connect attempts of the same call raised; for no dsn,
\* the empty one included, is it raised without such a failure.
C18_EstablishErrorHasCause ==
    (last.op = "get" /\ last.inner.type = "ConnectionEstablishError")
    => LET cause == last.inner.cause
       IN  /\ last.inner.name = config.name
           /\ cause # NoError
           /\ cause.type \in DriverFailures
           /\ cause.attempt \in DOMAIN last.calls
           /\ last.calls[cause.attempt].outcome # "ok"
           /\ kind = "exasol" => last.calls[cause.attempt].outcome = cause.type
           /\ last.raised = last.inner

C18_Witness ==
    /\ kind = "postgres" /\ last.op = "get"
    /\ config.dsn = <<":", ",", ":">>
    /\ last.raised.type = "ConnectionEstablishError"
    /\ last.raised.name = config.name
    /\ last.raised.cause = DriverError("psycopg2.Error", 2)
    /\ Len(last.calls) = 2

\* C19. Failures outside the establishment routine are not translated:
\* when the handle's release raises in close(), close() raises that very
\* failure (not a ConnectionEstablishError, not nothing) and the slot still
\* holds the handle; when the liveness flag read raises in
\* get_connection(), get_connection() raises that very failure, without
\* having run _connect and with the slot as it was.
C19_OutsideFailuresRaw ==
    /\ (last.op = "close" /\ last.release = "raised")
         => /\ last.raised = ReleaseError
            /\ last.raised.type # "ConnectionEstablishError"
            /\ last.pre # 0
            /\ last.post = last.pre
            /\ connection = last.pre
    /\ (last.op = "get" /\ last.flag = "raises")
         => /\ last.raised = FlagReadError
            /\ last.raised.type # "ConnectionEstablishError"
            /\ last.inner = NoError
            /\ last.established = 0
            /\ last.calls = <<>>
            /\ last.pre # 0
            /\ connection = last.pre

C19_Witness ==
    /\ prev.op = "close" /\ prev.release = "raised"
    /\ prev.raised = ReleaseError
    /\ last.op = "get" /\ last.flag = "raises"
    /\ last.raised = FlagReadError
    /\ connection = prev.pre /\ connection # 0

\* Caller t runs a return statement of get_connection() in this step.
ReturnsNow(t) ==
    threads[t].pc \in {"get_31", "get_33"} /\ threads'[t].pc = "idle"

\* C20. Whenever get_connection() returns normally, also while close() on
\* the same connector runs concurrently, the value it returns is a
\* non-null handle and is the handle the slot holds at that moment.
C20_ReturnsCachedHandle ==
    [][\A t \in Threads :
          ReturnsNow(t)
          => /\ threads'[t].status = "returned"
             /\ threads'[t].ret # 0
             /\ threads'[t].ret = connection']_vars

\* C20, amended. Whenever get_connection() returns normally the value it
\* returns is what the slot holds at that moment; when no other caller was
\* inside a method of the connector during the call, that value is a
\* handle the driver created.
C20_ReturnsSlot ==
    [][\A t \in Threads :
          ReturnsNow(t)
          => /\ threads'[t].status = "returned"
             /\ threads'[t].ret = connection
             /\ connection' = connection
             /\ ~threads'[t].overlapped
                  => /\ threads'[t].ret # 0
                     /\ handles[threads'[t].ret] # "unborn"]_vars

C20_Witness ==
    /\ threads["t1"].op = "get" /\ threads["t1"].status = "returned"
    /\ threads["t1"].pc = "idle"
    /\ threads["t1"].ran_connect /\ threads["t1"].est # 0
    /\ threads["t1"].overlapped
    /\ threads["t1"].ret = 0
    /\ threads["t2"].op = "close" /\ threads["t2"].status = "returned"
    /\ threads["t2"].seen = threads["t1"].est
    /\ connection = 0

====
